---- MODULE Spec2Model ----
(***************************************************************************)
(* RoftX backend: the two request handlers of the gateway,                 *)
(*   POST /api/auth/google  (verify a Google id token, then SELECT and     *)
(*                           INSERT-or-UPDATE the users row), and          *)
(*   POST /api/gemini       (validate the prompt, call the model provider, *)
(*                           map its answer to an HTTP response).          *)
(* The repository holds the server in several revisions.  Two of them are  *)
(* modelled, selected by the variable impl:                                *)
(*   "server"  : src/roftx_backend/server.js, lines 1-376                  *)
(*   "part000" : src/unnamed/part_000                                      *)
(* Every await of a handler is a separate step, so the steps of concurrent *)
(* requests interleave exactly where the event loop can interleave them.   *)
(***************************************************************************)
EXTENDS Integers, Sequences, FiniteSets, TLC

VARIABLES
    impl,          \* which revision of the server runs
    schemaUnique,  \* whether the users table declares google_id UNIQUE
    users,         \* the users table: a sequence of rows, in insertion order
    nextId,        \* the table's serial id
    clock,         \* the value NOW() returns
    calls,         \* how many auth requests have arrived
    areq,          \* per auth request: its position and locals
    aresp,         \* per auth request: the HTTP response sent (status 0: none yet)
    greq,          \* the generation request: its position and locals
    gresp,         \* the generation request's HTTP response (status 0: none yet)
    nodeEnv,       \* NODE_ENV
    fetchCalls,    \* how often the current generation request called fetch
    sent           \* the payload handed to the provider by the current request

vars == <<impl, schemaUnique, users, nextId, clock, calls, areq, aresp, greq, gresp, nodeEnv, fetchCalls, sent>>

authVars == <<users, nextId, calls, areq, aresp>>
genVars == <<greq, gresp, nodeEnv, fetchCalls, sent>>

----------------------------------------------------------------------------
(* Bounds *)

\* number of auth requests that can be in flight at once
NumAuth == 2
\* NOW() takes the values 0..MaxClock
MaxClock == 1
\* number of auth requests that arrive in one run
MaxCalls == 2

AuthIds == 1..NumAuth

----------------------------------------------------------------------------
(* Identity assertions and their verification *)

\* The id tokens a client can post.  "" is a request without a token.
Tokens == {"", "tA1", "tA2", "tB1", "tExpired", "tMalformed", "tWrongAud", "tWrongIss"}

\* The claims an id token carries once decoded (ticket.getPayload()).
PayloadOf(token) ==
    CASE token = "tA1" ->
           [sub |-> "sA", email |-> "a@x", name |-> "Ann", picture |-> "p1",
            locale |-> "en", given_name |-> "Ann", family_name |-> "A"]
      [] token = "tA2" ->
           [sub |-> "sA", email |-> "a2@x", name |-> "Ann Lee", picture |-> "p2",
            locale |-> "fr", given_name |-> "Anna", family_name |-> "Lee"]
      [] token = "tB1" ->
           [sub |-> "sB", email |-> "b@x", name |-> "Bob", picture |-> "p3",
            locale |-> "en", given_name |-> "Bob", family_name |-> "B"]
      [] OTHER ->
           [sub |-> "sA", email |-> "a@x", name |-> "Ann", picture |-> "p1",
            locale |-> "en", given_name |-> "Ann", family_name |-> "A"]

\* The time at which a token's validity window ends.
ExpiryOf(token) ==
    CASE token = "tExpired" -> 0
      [] token = "tA2" -> 2
      [] OTHER -> 9

\* A verification that does not look at the validity window.
VerifyIdTokenNoExpiry(token, now) ==
    CASE token = "tMalformed" -> "InvalidToken"
      [] token = "tWrongIss" -> "UntrustedIssuer"
      [] token = "tWrongAud" -> "AudienceMismatch"
      [] OTHER -> "ok"

\* OAuth2Client.verifyIdToken(idToken, audience) at time now: "ok", or the
\* reason it rejects with.
VerifyIdToken(token, now) ==
    CASE token = "tMalformed" -> "InvalidToken"
      [] token = "tWrongIss" -> "UntrustedIssuer"
      [] now >= ExpiryOf(token) -> "ExpiredToken"
      [] token = "tWrongAud" -> "AudienceMismatch"
      [] OTHER -> "ok"

VerifyFailures == {"InvalidToken", "UntrustedIssuer", "ExpiredToken", "AudienceMismatch"}

----------------------------------------------------------------------------
(* The users table *)

Subjects == {"sA", "sB"}

\* indexes of the rows WHERE google_id = sub
RowsOf(tbl, sub) == {i \in 1..Len(tbl) : tbl[i].google_id = sub}

\* INSERT INTO users (google_id, email, full_name, given_name, family_name,
\*   picture_url, locale, last_login) VALUES ($1..$7, NOW()): the new row.
\* id and created_at are not in the column list: the table fills them in.
InsertedRow(p, id, now) ==
    [id |-> id, google_id |-> p.sub, email |-> p.email, full_name |-> p.name,
     given_name |-> p.given_name, family_name |-> p.family_name,
     picture_url |-> p.picture, locale |-> p.locale,
     last_login |-> now, created_at |-> now]

\* An UPDATE whose SET list lacks last_login = NOW().
UpdatedRowStaleLogin(row, p, now) ==
    [row EXCEPT !.full_name = p.name, !.picture_url = p.picture]

\* An UPDATE that rewrites every claim column.
UpdatedRowAllClaims(row, p, now) ==
    [row EXCEPT !.last_login = now, !.full_name = p.name, !.picture_url = p.picture,
                !.email = p.email, !.given_name = p.given_name,
                !.family_name = p.family_name, !.locale = p.locale]

\* UPDATE users SET last_login = NOW(), full_name = $2, picture_url = $3
\*   WHERE google_id = $1: what becomes of one matching row.
UpdatedRow(row, p, now) ==
    [row EXCEPT !.last_login = now, !.full_name = p.name, !.picture_url = p.picture]

\* The UPDATE statement applied to the table.
UpdateUsers(tbl, p, now) ==
    [i \in 1..Len(tbl) |->
        IF tbl[i].google_id = p.sub THEN UpdatedRow(tbl[i], p, now) ELSE tbl[i]]

\* rows[0] of a RETURNING * result: <<>> stands for undefined.
FirstRow(tbl, sub) ==
    IF RowsOf(tbl, sub) = {} THEN <<>>
    ELSE LET i == CHOOSE k \in RowsOf(tbl, sub) : \A m \in RowsOf(tbl, sub) : k <= m
         IN <<tbl[i]>>

----------------------------------------------------------------------------
(* HTTP responses of POST /api/auth/google *)

NoResp == [status |-> 0, error |-> "", user |-> <<>>]

AuthOk(user) == [status |-> 200, error |-> "", user |-> user]

AuthErr(status, msg) == [status |-> status, error |-> msg, user |-> <<>>]

\* if (!token) return res.status(400)
NoTokenResp == AuthErr(400, "No token provided")

\* What the handler answers when verifyIdToken rejects.  part_000 has a catch
\* of its own around the verification; server.js has one try for the whole
\* handler.  Neither looks at the reason.
VerifyFailResp(rev, reason) ==
    IF rev = "part000"
    THEN AuthErr(401, "Invalid Google token. Please sign in again.")
    ELSE AuthErr(500, "Authentication failed due to a server error.")

\* What the handler answers when a pool.query rejects.
StoreFailResp(rev) ==
    IF rev = "part000"
    THEN AuthErr(500, "Server error during authentication.")
    ELSE AuthErr(500, "Authentication failed due to a server error.")

----------------------------------------------------------------------------
(* POST /api/auth/google, one step per await *)

AIdle == [pc |-> "idle", token |-> "", err |-> ""]

\* The request arrives; the synchronous prefix runs up to the first await.
\* Requests are interchangeable, so an arriving one takes the lowest free slot.
AuthStart(r, token) ==
    /\ areq[r].pc = "idle"
    /\ \A q \in AuthIds : q < r => areq[q].pc # "idle"
    /\ calls < MaxCalls
    /\ calls' = calls + 1
    /\ IF token = ""
       THEN /\ areq' = [areq EXCEPT ![r] = [AIdle EXCEPT !.pc = "done"]]
            /\ aresp' = [aresp EXCEPT ![r] = NoTokenResp]
       ELSE /\ areq' = [areq EXCEPT ![r] = [AIdle EXCEPT !.pc = "verify", !.token = token]]
            /\ aresp' = [aresp EXCEPT ![r] = NoResp]
    /\ UNCHANGED <<impl, schemaUnique, users, nextId, clock, genVars>>

\* await client.verifyIdToken(...) settles.
AuthVerify(r) ==
    /\ areq[r].pc = "verify"
    /\ LET v == VerifyIdToken(areq[r].token, clock) IN
       IF v = "ok"
       THEN /\ areq' = [areq EXCEPT ![r].pc = "select"]
            /\ UNCHANGED aresp
       ELSE /\ areq' = [areq EXCEPT ![r].pc = "done", ![r].err = v]
            /\ aresp' = [aresp EXCEPT ![r] = VerifyFailResp(impl, v)]
    /\ UNCHANGED <<impl, schemaUnique, users, nextId, clock, calls, genVars>>

\* await pool.query('SELECT ... WHERE google_id = $1') settles; storeOk = FALSE
\* is the query rejecting (connection lost, ...).
AuthSelect(r, storeOk) ==
    /\ areq[r].pc = "select"
    /\ IF storeOk
       THEN /\ areq' = [areq EXCEPT
                  ![r].pc = IF RowsOf(users, PayloadOf(areq[r].token).sub) = {}
                            THEN "insert" ELSE "update"]
            /\ UNCHANGED aresp
       ELSE /\ areq' = [areq EXCEPT ![r].pc = "done", ![r].err = "StoreError"]
            /\ aresp' = [aresp EXCEPT ![r] = StoreFailResp(impl)]
    /\ UNCHANGED <<impl, schemaUnique, users, nextId, clock, calls, genVars>>

\* await pool.query('INSERT INTO users ...') settles.  With google_id UNIQUE
\* the statement raises a duplicate-key error when the subject has a row.
AuthInsert(r, storeOk) ==
    /\ areq[r].pc = "insert"
    /\ LET p == PayloadOf(areq[r].token) IN
       IF ~storeOk
       THEN /\ areq' = [areq EXCEPT ![r].pc = "done", ![r].err = "StoreError"]
            /\ aresp' = [aresp EXCEPT ![r] = StoreFailResp(impl)]
            /\ UNCHANGED <<users, nextId>>
       ELSE IF schemaUnique /\ RowsOf(users, p.sub) # {}
       THEN /\ areq' = [areq EXCEPT ![r].pc = "done", ![r].err = "DuplicateKey"]
            /\ aresp' = [aresp EXCEPT ![r] = StoreFailResp(impl)]
            /\ UNCHANGED <<users, nextId>>
       ELSE /\ users' = Append(users, InsertedRow(p, nextId, clock))
            /\ nextId' = nextId + 1
            /\ areq' = [areq EXCEPT ![r].pc = "done"]
            /\ aresp' = [aresp EXCEPT ![r] = AuthOk(<<InsertedRow(p, nextId, clock)>>)]
    /\ UNCHANGED <<impl, schemaUnique, clock, calls, genVars>>

\* await pool.query('UPDATE users SET ...') settles.
AuthUpdate(r, storeOk) ==
    /\ areq[r].pc = "update"
    /\ LET p == PayloadOf(areq[r].token) IN
       IF ~storeOk
       THEN /\ areq' = [areq EXCEPT ![r].pc = "done", ![r].err = "StoreError"]
            /\ aresp' = [aresp EXCEPT ![r] = StoreFailResp(impl)]
            /\ UNCHANGED users
       ELSE /\ users' = UpdateUsers(users, p, clock)
            /\ areq' = [areq EXCEPT ![r].pc = "done"]
            /\ aresp' = [aresp EXCEPT ![r] = AuthOk(FirstRow(UpdateUsers(users, p, clock), p.sub))]
    /\ UNCHANGED <<impl, schemaUnique, nextId, clock, calls, genVars>>

\* The response has gone out; the slot takes the next request.
AuthFinish(r) ==
    /\ areq[r].pc = "done"
    /\ areq' = [areq EXCEPT ![r] = AIdle]
    /\ aresp' = [aresp EXCEPT ![r] = NoResp]
    /\ UNCHANGED <<impl, schemaUnique, users, nextId, clock, calls, genVars>>

\* Time passes.
Tick ==
    /\ clock < MaxClock
    /\ clock' = clock + 1
    /\ UNCHANGED <<impl, schemaUnique, authVars, genVars>>

----------------------------------------------------------------------------
(* JSON values, as JavaScript sees them after JSON.parse / express.json()   *)
(* A value is a record tagged with its typeof-like kind.  A string carries  *)
(* its text v, its length len and blank = (v.trim() is empty).              *)

JUndef == [t |-> "undefined"]
JNull == [t |-> "null"]
Str(v, len, blank) == [t |-> "string", v |-> v, len |-> len, blank |-> blank]
Num(n) == [t |-> "number", n |-> n]
Obj(f) == [t |-> "object", f |-> f]
Arr(a) == [t |-> "array", a |-> a]
\* {} : the object without own properties
NoProps == [k \in {} |-> JUndef]
EmptyStr == Str("", 0, TRUE)

\* Reading a property of undefined or null raises a TypeError.
IsNullish(v) == v.t \in {"undefined", "null"}

\* v.k for a v that is not nullish: own properties of objects, length of
\* strings and arrays, undefined otherwise.
Get(v, k) ==
    CASE v.t = "object" -> IF k \in DOMAIN v.f THEN v.f[k] ELSE JUndef
      [] v.t = "array" /\ k = "length" -> Num(Len(v.a))
      [] v.t = "string" /\ k = "length" -> Num(v.len)
      [] OTHER -> JUndef

\* v[i] (i counted from 0) for a v that is not nullish.
At(v, i) ==
    CASE v.t = "array" -> IF i < Len(v.a) THEN v.a[i + 1] ELSE JUndef
      [] v.t = "string" -> IF i < v.len THEN Str("<char>", 1, v.blank) ELSE JUndef
      [] OTHER -> JUndef

\* !!v
Truthy(v) ==
    CASE v.t \in {"undefined", "null"} -> FALSE
      [] v.t = "string" -> v.len > 0
      [] v.t = "number" -> v.n # 0
      [] OTHER -> TRUE

\* typeof v === 'string'
IsString(v) == v.t = "string"
\* typeof v === 'string' && v.trim()
IsNonBlankString(v) == v.t = "string" /\ ~v.blank
\* Array.isArray(v) && v.length > 0
IsNonEmptyArray(v) == v.t = "array" /\ Len(v.a) > 0
\* v && typeof v === 'object'
IsObjectLike(v) == v.t \in {"object", "array"}

----------------------------------------------------------------------------
(* extractTextFromAnthropicResponse (server.js)                            *)
(* The result is [thrown, val]: thrown = TRUE is a TypeError raised by a    *)
(* property read on null; val is the value returned (JNull for null).       *)

Ret(v) == [thrown |-> FALSE, val |-> v]
Thrown == [thrown |-> TRUE, val |-> JUndef]

\* data.messages.find(m => m.role === 'assistant'), from index i on:
\* the first such entry, JUndef when there is none; reading m.role of a null
\* entry raises.
RECURSIVE FindAssistant(_, _)
FindAssistant(a, i) ==
    IF i > Len(a) THEN Ret(JUndef)
    ELSE IF IsNullish(a[i]) THEN Thrown
    ELSE IF IsString(Get(a[i], "role")) /\ Get(a[i], "role").v = "assistant" THEN Ret(a[i])
    ELSE FindAssistant(a, i + 1)

\* 5) candidates style, inside its own try/catch
ExtractCandidates(data) ==
    IF IsNonEmptyArray(Get(data, "candidates"))
    THEN LET cand == At(Get(data, "candidates"), 0) IN
         IF /\ Truthy(cand)
            /\ Truthy(Get(cand, "content"))
            /\ Get(Get(cand, "content"), "parts").t = "array"
            /\ Truthy(At(Get(Get(cand, "content"), "parts"), 0))
         THEN Ret(Get(At(Get(Get(cand, "content"), "parts"), 0), "text"))
         ELSE Ret(JNull)
    ELSE Ret(JNull)

\* 4) fallback keys output_text, text; then 5)
ExtractFallback(data) ==
    IF IsNonBlankString(Get(data, "output_text")) THEN Ret(Get(data, "output_text"))
    ELSE IF IsNonBlankString(Get(data, "text")) THEN Ret(Get(data, "text"))
    ELSE ExtractCandidates(data)

\* 3) messages style; then 4)
ExtractMessages(data) ==
    IF IsNonEmptyArray(Get(data, "messages"))
    THEN LET found == FindAssistant(Get(data, "messages").a, 1) IN
         IF found.thrown THEN Thrown
         ELSE LET msg == IF Truthy(found.val) THEN found.val
                         ELSE At(Get(data, "messages"), 0) IN
              IF Truthy(msg) /\ Truthy(Get(msg, "content"))
              THEN IF IsNonBlankString(Get(Get(msg, "content"), "text"))
                   THEN Ret(Get(Get(msg, "content"), "text"))
                   ELSE IF IsNonBlankString(Get(msg, "content"))
                   THEN Ret(Get(msg, "content"))
                   ELSE ExtractFallback(data)
              ELSE ExtractFallback(data)
    ELSE ExtractFallback(data)

\* 2) top-level content array; then 3)
ExtractContent(data) ==
    IF IsNonEmptyArray(Get(data, "content"))
    THEN LET first == At(Get(data, "content"), 0) IN
         IF IsNullish(first) THEN Thrown
         ELSE IF IsNonBlankString(Get(first, "text")) THEN Ret(Get(first, "text"))
         ELSE IF IsNonEmptyArray(Get(first, "content"))
         THEN LET inner == At(Get(first, "content"), 0) IN
              IF IsNullish(inner) THEN Thrown
              ELSE IF IsString(Get(inner, "text")) THEN Ret(Get(inner, "text"))
              ELSE ExtractMessages(data)
         ELSE ExtractMessages(data)
    ELSE ExtractMessages(data)

\* 1) completion string, completion.content string, completion.content parts; then 2)
ExtractCompletion(data) ==
    LET c == Get(data, "completion") IN
    IF IsNonBlankString(c) THEN Ret(c)
    ELSE IF IsObjectLike(c)
    THEN IF IsNonBlankString(Get(c, "content")) THEN Ret(Get(c, "content"))
         ELSE IF IsNonEmptyArray(Get(c, "content"))
         THEN LET part == At(Get(c, "content"), 0) IN
              IF IsNullish(part) THEN Thrown
              ELSE IF IsString(Get(part, "text")) THEN Ret(Get(part, "text"))
              ELSE ExtractContent(data)
         ELSE ExtractContent(data)
    ELSE ExtractContent(data)

extractTextFromAnthropicResponse(data) ==
    IF ~Truthy(data) THEN Ret(JNull) ELSE ExtractCompletion(data)

----------------------------------------------------------------------------
(* POST /api/gemini: inputs *)

\* prompt.length > 100000 is rejected (part_000)
MaxPromptLen == 100000

\* the texts a request can carry as its prompt
PromptTexts ==
    {EmptyStr, Str("   ", 3, TRUE), Str("hi", 2, FALSE),
     Str("<100000 chars>", MaxPromptLen, FALSE),
     Str("<100001 chars>", MaxPromptLen + 1, FALSE)}

\* { contents: [{ parts: [{ text }] }] }
ContentsOf(text) == Arr(<<Obj([parts |-> Arr(<<Obj([text |-> text])>>)])>>)

\* values of the body's contents field
ContentsInputs ==
    {JUndef, Arr(<<>>), Arr(<<JNull>>), Arr(<<Obj(NoProps)>>),
     Arr(<<Obj([parts |-> Arr(<<JNull, Obj([text |-> Str("hi", 2, FALSE)])>>)])>>),
     Arr(<<Obj([parts |-> Arr(<<Obj([text |-> Num(5)])>>)])>>)}
    \cup {ContentsOf(t) : t \in PromptTexts}

\* values of the body's prompt field
PromptInputs == {JUndef, EmptyStr, Str("yo", 2, FALSE), Str("<100001 chars>", MaxPromptLen + 1, FALSE)}

\* values of the body's model field (the tier)
TierInputs ==
    {JUndef, JNull, EmptyStr, Str("haiku", 5, FALSE), Str("sonnet", 6, FALSE),
     Str("haiku-legacy", 12, FALSE), Str("opus", 4, FALSE),
     Str("constructor", 11, FALSE), Num(5)}

\* the request bodies
GenBodies ==
    {Obj([contents |-> c, prompt |-> q, model |-> m]) :
        c \in ContentsInputs, q \in PromptInputs, m \in TierInputs}

\* HTTP statuses the provider answers with
Statuses == {200, 400, 401, 429, 500}

\* The provider's response body: Undecodable is a body JSON.parse rejects,
\* everything else is the decoded value.
Undecodable == [t |-> "undecodable"]

ProviderBodies ==
    {Undecodable, JNull, Obj(NoProps),
     Obj([error |-> Obj([message |-> Str("boom", 4, FALSE)])]),
     Obj([error |-> Str("overloaded", 10, FALSE)]),
     Obj([content |-> Arr(<<Obj([text |-> Str("a", 1, FALSE)])>>)]),
     Obj([content |-> Arr(<<JNull>>)]),
     Obj([completion |-> Str("hi", 2, FALSE)]),
     Obj([candidates |-> Arr(<<Obj([content |-> Obj([parts |->
            Arr(<<Obj([text |-> Str("b", 1, FALSE)])>>)])])>>)]),
     Obj([candidates |-> Arr(<<Obj([content |-> Obj([parts |->
            Arr(<<Obj([text |-> Num(5)])>>)])])>>)]),
     Obj([completion |-> Obj([content |-> Arr(<<Obj([text |-> EmptyStr])>>)]),
          text |-> Str("later", 5, FALSE)]),
     Obj([content |-> Arr(<<Obj([content |-> Arr(<<Obj([text |-> Str("n", 1, FALSE)])>>)]),
                           Obj([text |-> Str("second", 6, FALSE)])>>)]),
     Obj([content |-> Arr(<<Obj([content |-> Arr(<<JNull>>)])>>)])}

\* what fetch settles with: a rejection, or a response (status line and body)
FetchOutcomes ==
    {[rejected |-> TRUE, status |-> 0, body |-> Undecodable]}
    \cup {[rejected |-> FALSE, status |-> st, body |-> b] : st \in Statuses, b \in ProviderBodies}

----------------------------------------------------------------------------
(* POST /api/gemini: tier table and payload (part_000) *)

\* names every object inherits from Object.prototype
InheritedKeys == {"constructor", "toString", "valueOf", "hasOwnProperty", "__proto__"}

\* an inherited member: truthy, and left out by JSON.stringify
JFunction == [t |-> "function"]

\* String(key), the property name a lookup uses
KeyOf(v) ==
    CASE v.t = "string" -> v.v
      [] v.t = "number" -> "<number>"
      [] OTHER -> "<other>"

\* modelMap[key]
modelMap(key) ==
    CASE key = "haiku" -> Str("claude-3-5-haiku-20241022", 25, FALSE)
      [] key = "sonnet" -> Str("claude-3-5-sonnet-20241022", 26, FALSE)
      [] key = "haiku-legacy" -> Str("claude-3-haiku-20240307", 23, FALSE)
      [] key \in InheritedKeys -> JFunction
      [] OTHER -> JUndef

\* maxTokensMap[key]
maxTokensMap(key) ==
    CASE key = "haiku" -> Num(2048)
      [] key = "sonnet" -> Num(4096)
      [] key = "haiku-legacy" -> Num(1024)
      [] key \in InheritedKeys -> JFunction
      [] OTHER -> JUndef

\* a || b
OrElse(a, b) == IF Truthy(a) THEN a ELSE b

\* req.body.model || 'haiku'
RequestedModel(body) == OrElse(Get(body, "model"), Str("haiku", 5, FALSE))

\* modelMap[requestedModel] || modelMap['haiku']
SelectedModel(body) == OrElse(modelMap(KeyOf(RequestedModel(body))), modelMap("haiku"))

\* maxTokensMap[requestedModel] || maxTokensMap['haiku']
MaxTokens(body) == OrElse(maxTokensMap(KeyOf(RequestedModel(body))), maxTokensMap("haiku"))

\* JSON.stringify leaves out a property whose value is a function
Stringified(v) == IF v.t = "function" THEN JUndef ELSE v

NoPayload == [model |-> JUndef, max_tokens |-> JUndef, content |-> JUndef]

\* JSON.stringify(claudePayload), the body handed to fetch
ClaudePayload(rev, body, prompt) ==
    IF rev = "part000"
    THEN [model |-> Stringified(SelectedModel(body)),
          max_tokens |-> Stringified(MaxTokens(body)),
          content |-> prompt]
    ELSE [model |-> Str("claude-3.5-mini", 15, FALSE),
          max_tokens |-> Num(1024),
          content |-> prompt]

----------------------------------------------------------------------------
(* POST /api/gemini: request validation *)

\* A validation result: the prompt to send, or the 400 message.
Accept(prompt) == [ok |-> TRUE, prompt |-> prompt, error |-> ""]
Reject(msg) == [ok |-> FALSE, prompt |-> JUndef, error |-> msg]

\* parts.find(p => typeof p.text === 'string' && p.text.trim()), from index
\* i on; reading p.text of a null entry raises.
RECURSIVE FindTextPart(_, _)
FindTextPart(a, i) ==
    IF i > Len(a) THEN Ret(JUndef)
    ELSE IF IsNullish(a[i]) THEN Thrown
    ELSE IF IsNonBlankString(Get(a[i], "text")) THEN Ret(a[i])
    ELSE FindTextPart(a, i + 1)

\* server.js: the prompt of a Gemini-style payload; every failure inside the
\* try gives the empty prompt.
GeminiStylePrompt(contents) ==
    LET first == At(contents, 0) IN
    IF IsNullish(first) THEN EmptyStr
    ELSE LET parts == OrElse(Get(first, "parts"), Arr(<<>>)) IN
         IF parts.t # "array" THEN EmptyStr
         ELSE LET found == FindTextPart(parts.a, 1) IN
              IF found.thrown THEN EmptyStr
              ELSE IF Truthy(found.val) THEN Get(found.val, "text")
              ELSE EmptyStr

\* A validation that takes any string prompt, blank or not.
ValidateServerNoEmptyCheck(body) ==
    IF Truthy(Get(body, "contents")) /\ IsNonEmptyArray(Get(body, "contents"))
    THEN Accept(GeminiStylePrompt(Get(body, "contents")))
    ELSE IF IsString(Get(body, "prompt")) THEN Accept(Get(body, "prompt"))
    ELSE Reject("Invalid payload. Provide prompt or contents.")

\* A validation that prefers the prompt field to the contents array.
ValidateServerPromptFirst(body) ==
    IF IsString(Get(body, "prompt"))
    THEN IF IsNonBlankString(Get(body, "prompt"))
         THEN Accept(Get(body, "prompt"))
         ELSE Reject("Prompt is empty.")
    ELSE IF Truthy(Get(body, "contents")) /\ IsNonEmptyArray(Get(body, "contents"))
    THEN IF IsNonBlankString(GeminiStylePrompt(Get(body, "contents")))
         THEN Accept(GeminiStylePrompt(Get(body, "contents")))
         ELSE Reject("Prompt is empty.")
    ELSE Reject("Invalid payload. Provide prompt or contents.")

\* server.js lines 235-263
ValidateServer(body) ==
    IF Truthy(Get(body, "contents")) /\ IsNonEmptyArray(Get(body, "contents"))
    THEN IF IsNonBlankString(GeminiStylePrompt(Get(body, "contents")))
         THEN Accept(GeminiStylePrompt(Get(body, "contents")))
         ELSE Reject("Prompt is empty.")
    ELSE IF IsString(Get(body, "prompt"))
    THEN IF IsNonBlankString(Get(body, "prompt"))
         THEN Accept(Get(body, "prompt"))
         ELSE Reject("Prompt is empty.")
    ELSE Reject("Invalid payload. Provide prompt or contents.")

\* prompt.length > 100000
TooLong(prompt) ==
    Get(prompt, "length").t = "number" /\ Get(prompt, "length").n > MaxPromptLen

\* part_000 lines 149-167
ValidatePart000(body) ==
    IF ~Truthy(Get(body, "contents")) THEN Reject("Invalid request payload")
    ELSE LET first == At(Get(body, "contents"), 0) IN
         IF \/ ~Truthy(first)
            \/ ~Truthy(Get(first, "parts"))
            \/ ~Truthy(At(Get(first, "parts"), 0))
            \/ ~Truthy(Get(At(Get(first, "parts"), 0), "text"))
         THEN Reject("Invalid content structure")
         ELSE IF TooLong(Get(At(Get(first, "parts"), 0), "text"))
         THEN Reject("Prompt exceeds maximum length")
         ELSE Accept(Get(At(Get(first, "parts"), 0), "text"))

Validate(rev, body) == IF rev = "part000" THEN ValidatePart000(body) ELSE ValidateServer(body)

----------------------------------------------------------------------------
(* POST /api/gemini: responses *)

GNoResp ==
    [status |-> 0, error |-> "", details |-> JUndef, errDetail |-> "",
     text |-> JUndef, candText |-> JUndef, raw |-> JUndef]

GenErr(status, msg) == [GNoResp EXCEPT !.status = status, !.error = msg]

\* A catch-all that answers 502 Bad Gateway.
CatchRespBadGateway(rev, env, err) ==
    [status |-> 502, error |-> "Bad gateway", details |-> JUndef, errDetail |-> err,
     text |-> JUndef, candText |-> JUndef, raw |-> JUndef]

\* The handler's catch-all.  err is the message of the error caught.
CatchResp(rev, env, err) ==
    IF rev = "server"
    THEN GenErr(500, "Internal server error while contacting AI model.")
    ELSE IF env = "production"
    THEN GenErr(500, "An error occurred while processing your request. Please try again.")
    ELSE [GenErr(500, "Internal server error") EXCEPT !.errDetail = err]

\* data.error?.message || 'AI service error', for a data that is not nullish
ProviderErrorMessage(data) ==
    LET e == Get(data, "error") IN
    IF IsNullish(e) \/ ~Truthy(Get(e, "message")) THEN "AI service error"
    ELSE IF IsString(Get(e, "message")) THEN Get(e, "message").v
    ELSE "<not a string>"

\* part_000 lines 208-229: the provider answered with a non-2xx status
ErrorRespPart000(env, status, data) ==
    IF IsNullish(data) THEN CatchResp("part000", env, "Cannot read properties of null")
    ELSE IF status = 429 THEN GenErr(429, "Rate limit exceeded. Please try again in a moment.")
    ELSE IF status = 401 THEN GenErr(500, "API authentication error. Please contact support.")
    ELSE IF status = 400 THEN GenErr(400, "Invalid request format. Please try again.")
    ELSE GenErr(status, ProviderErrorMessage(data))

\* part_000 lines 231-254: the provider answered 2xx
OkRespPart000(env, data) ==
    IF IsNullish(data) THEN CatchResp("part000", env, "Cannot read properties of null")
    ELSE IF \/ ~Truthy(Get(data, "content"))
            \/ ~Truthy(At(Get(data, "content"), 0))
            \/ ~Truthy(Get(At(Get(data, "content"), 0), "text"))
    THEN GenErr(500, "Invalid AI response format")
    ELSE [GNoResp EXCEPT !.status = 200,
                         !.candText = Get(At(Get(data, "content"), 0), "text")]

\* server.js lines 303-307
ErrorRespServer(data) ==
    [GenErr(502, "Model provider error") EXCEPT !.details = data]

\* A 200 response whose candidate part carries the extracted value as it is,
\* without the || '' of the text field.
OkRespServerRawCandidate(env, data) ==
    LET x == extractTextFromAnthropicResponse(data) IN
    IF x.thrown THEN CatchResp("server", env, "Cannot read properties of null")
    ELSE [GNoResp EXCEPT !.status = 200,
                         !.text = OrElse(x.val, EmptyStr),
                         !.candText = x.val,
                         !.raw = data]

\* server.js lines 309-329: extractTextFromAnthropicResponse(data) || ''
OkRespServer(env, data) ==
    LET x == extractTextFromAnthropicResponse(data) IN
    IF x.thrown THEN CatchResp("server", env, "Cannot read properties of null")
    ELSE [GNoResp EXCEPT !.status = 200,
                         !.text = OrElse(x.val, EmptyStr),
                         !.candText = OrElse(x.val, EmptyStr),
                         !.raw = data]

\* claudeResponse.ok
IsOk(status) == status >= 200 /\ status <= 299

\* What the handler answers once the body is decoded.
Respond(rev, env, status, data) ==
    IF rev = "part000"
    THEN IF IsOk(status) THEN OkRespPart000(env, data) ELSE ErrorRespPart000(env, status, data)
    ELSE IF IsOk(status) THEN OkRespServer(env, data) ELSE ErrorRespServer(data)

----------------------------------------------------------------------------
(* POST /api/gemini, one step per await *)

GIdle == [pc |-> "idle", body |-> JUndef, status |-> 0, pbody |-> JUndef,
          bodyUsed |-> FALSE, rejected |-> FALSE]

\* The request arrives: validation, then the call of fetch.
GenStart(body) ==
    /\ greq.pc = "idle"
    /\ LET v == Validate(impl, body) IN
       IF v.ok
       THEN /\ greq' = [GIdle EXCEPT !.pc = "fetch", !.body = body]
            /\ gresp' = GNoResp
            /\ fetchCalls' = 1
            /\ sent' = ClaudePayload(impl, body, v.prompt)
       ELSE /\ greq' = [GIdle EXCEPT !.pc = "done", !.body = body]
            /\ gresp' = GenErr(400, v.error)
            /\ fetchCalls' = 0
            /\ sent' = NoPayload
    /\ UNCHANGED <<impl, schemaUnique, clock, authVars, nodeEnv>>

\* A handler that calls fetch a second time when the provider answers 429.
GenFetchSettleRetry(o) ==
    /\ greq.pc = "fetch"
    /\ IF o.rejected
       THEN /\ greq' = [greq EXCEPT !.pc = "done", !.rejected = TRUE]
            /\ gresp' = CatchResp(impl, nodeEnv, "fetch failed")
            /\ UNCHANGED fetchCalls
       ELSE IF o.status = 429 /\ fetchCalls < 2
       THEN /\ fetchCalls' = fetchCalls + 1
            /\ UNCHANGED <<greq, gresp>>
       ELSE /\ greq' = [greq EXCEPT !.pc = "json", !.status = o.status, !.pbody = o.body]
            /\ UNCHANGED <<gresp, fetchCalls>>
    /\ UNCHANGED <<impl, schemaUnique, clock, authVars, nodeEnv, sent>>

\* await fetch(...) settles: rejected (connection refused, timeout, ...) or
\* resolved with the response's status line.
GenFetchSettle(o) ==
    /\ greq.pc = "fetch"
    /\ IF o.rejected
       THEN /\ greq' = [greq EXCEPT !.pc = "done", !.rejected = TRUE]
            /\ gresp' = CatchResp(impl, nodeEnv, "fetch failed")
       ELSE /\ greq' = [greq EXCEPT !.pc = "json", !.status = o.status, !.pbody = o.body]
            /\ UNCHANGED gresp
    /\ UNCHANGED <<impl, schemaUnique, clock, authVars, nodeEnv, fetchCalls, sent>>

\* await claudeResponse.json() settles.  json() consumes the body.
GenJsonSettle ==
    /\ greq.pc = "json"
    /\ IF greq.pbody = Undecodable
       THEN IF impl = "part000"
            THEN /\ greq' = [greq EXCEPT !.pc = "done", !.bodyUsed = TRUE]
                 /\ gresp' = CatchResp(impl, nodeEnv, "Unexpected token in JSON")
            ELSE /\ greq' = [greq EXCEPT !.pc = "text", !.bodyUsed = TRUE]
                 /\ UNCHANGED gresp
       ELSE /\ greq' = [greq EXCEPT !.pc = "done", !.bodyUsed = TRUE]
            /\ gresp' = Respond(impl, nodeEnv, greq.status, greq.pbody)
    /\ UNCHANGED <<impl, schemaUnique, clock, authVars, nodeEnv, fetchCalls, sent>>

\* server.js line 298: await claudeResp.text() settles.  A body that was
\* already consumed makes text() reject, which the outer catch answers.
GenTextSettle ==
    /\ greq.pc = "text"
    /\ greq' = [greq EXCEPT !.pc = "done"]
    /\ gresp' = IF greq.bodyUsed
                THEN CatchResp(impl, nodeEnv, "Body is unusable")
                ELSE GenErr(502, "Invalid response from model provider.")
    /\ UNCHANGED <<impl, schemaUnique, clock, authVars, nodeEnv, fetchCalls, sent>>

\* The response has gone out; the next request can arrive.
GenFinish ==
    /\ greq.pc = "done"
    /\ greq' = GIdle
    /\ gresp' = GNoResp
    /\ fetchCalls' = 0
    /\ sent' = NoPayload
    /\ UNCHANGED <<impl, schemaUnique, clock, authVars, nodeEnv>>

----------------------------------------------------------------------------

Init ==
    /\ impl \in {"server", "part000"}
    /\ schemaUnique \in BOOLEAN
    /\ users \in {<<>>, <<InsertedRow(PayloadOf("tB1"), 1, 0)>>}
    /\ nextId = Len(users) + 1
    /\ clock = 0
    /\ calls = 0
    /\ areq = [r \in AuthIds |-> AIdle]
    /\ aresp = [r \in AuthIds |-> NoResp]
    /\ greq = GIdle
    /\ gresp = GNoResp
    /\ nodeEnv \in {"production", "development"}
    /\ fetchCalls = 0
    /\ sent = NoPayload

NextAuth ==
    \/ \E r \in AuthIds, token \in Tokens : AuthStart(r, token)
    \/ \E r \in AuthIds : AuthVerify(r)
    \/ \E r \in AuthIds, storeOk \in BOOLEAN : AuthSelect(r, storeOk)
    \/ \E r \in AuthIds, storeOk \in BOOLEAN : AuthInsert(r, storeOk)
    \/ \E r \in AuthIds, storeOk \in BOOLEAN : AuthUpdate(r, storeOk)
    \/ \E r \in AuthIds : AuthFinish(r)
    \/ Tick

NextGen ==
    \/ \E body \in GenBodies : GenStart(body)
    \/ \E o \in FetchOutcomes : GenFetchSettle(o)
    \/ GenJsonSettle
    \/ GenTextSettle
    \/ GenFinish

Next == NextAuth \/ NextGen

\* The two handlers share no variable: the auth handler never reads NODE_ENV,
\* the generation handler never touches the users table.  Each is checked with
\* the other one at rest and the other one's configuration fixed.
InitAuth == Init /\ nodeEnv = "production"

InitGen == Init /\ schemaUnique /\ users = <<>>

\* the auth handler alone
SpecAuth == InitAuth /\ [][NextAuth]_vars

\* A request arrives only when no other auth request is in flight.
AuthStartSeq(r, token) ==
    /\ \A q \in AuthIds : areq[q].pc = "idle"
    /\ AuthStart(r, token)

NextAuthSeq ==
    \/ \E r \in AuthIds, token \in Tokens : AuthStartSeq(r, token)
    \/ \E r \in AuthIds : AuthVerify(r)
    \/ \E r \in AuthIds, storeOk \in BOOLEAN : AuthSelect(r, storeOk)
    \/ \E r \in AuthIds, storeOk \in BOOLEAN : AuthInsert(r, storeOk)
    \/ \E r \in AuthIds, storeOk \in BOOLEAN : AuthUpdate(r, storeOk)
    \/ \E r \in AuthIds : AuthFinish(r)
    \/ Tick

\* the auth handler, one request after the other
SpecAuthSeq == InitAuth /\ [][NextAuthSeq]_vars

\* the generation handler alone
SpecGen == InitGen /\ [][NextGen]_vars

\* The generation handler with the progress its code guarantees.  The steps
\* the handler takes by itself are fair: text() on a consumed body rejects at
\* once, and an answer written with res.json() goes out.  fetch and json()
\* settle when the provider sends the status line and the body: neither call
\* is given a timeout or an abort signal, so nothing forces them to settle.
SpecGenFair == SpecGen /\ WF_vars(GenTextSettle) /\ WF_vars(GenFinish)

\* the whole server
Spec == Init /\ [][Next]_vars

----------------------------------------------------------------------------
(* Properties of POST /api/auth/google *)

\* the subject of request r's token
SubOf(r) == PayloadOf(areq[r].token).sub

\* the rows of a subject, in table order
RowSeqOf(tbl, sub) == SelectSeq(tbl, LAMBDA row : row.google_id = sub)

\* request r's store write (INSERT or UPDATE) succeeds in this step
WriteSucceeds(r) ==
    /\ areq[r].pc \in {"insert", "update"}
    /\ areq'[r].pc = "done"
    /\ aresp'[r].status = 200

\* C1: concurrent reconciles of one fresh subject leave exactly one row for
\* it: no subject ever has two rows, and no call runs into a duplicate-key
\* error.
C1_ConcurrentReconcileOneRow ==
    /\ \A s \in Subjects : Cardinality(RowsOf(users, s)) <= 1
    /\ \A r \in AuthIds : areq[r].err # "DuplicateKey"

\* C2: the create-or-refresh is one atomic upsert: while a reconcile is
\* between its lookup and its write, no other request's store operation on
\* the same subject takes effect.
C2_UpsertIsAtomic ==
    [][\A r \in AuthIds :
          (areq[r].pc \in {"insert", "update"} /\ areq'[r] = areq[r])
          => RowSeqOf(users', SubOf(r)) = RowSeqOf(users, SubOf(r))]_vars

\* C3: with the calls made one after the other, every successful reconcile
\* leaves exactly one row for its subject, with last_login the time of that
\* call's write and created_at as it was set at creation; no subject ever
\* has more than one row.
C3_SequentialIdempotent ==
    [][/\ \A s \in Subjects : Cardinality(RowsOf(users', s)) <= 1
       /\ \A r \in AuthIds :
            WriteSucceeds(r) =>
              LET before == RowSeqOf(users, SubOf(r))
                  after == RowSeqOf(users', SubOf(r))
              IN /\ Len(after) = 1
                 /\ after[1].last_login = clock
                 /\ aresp'[r].user = after
                 /\ IF before = <<>>
                    THEN after[1].created_at = clock
                    ELSE after[1].created_at = before[1].created_at]_vars

\* C3 witness: a repeated assertion refreshed a row created at an earlier time.
C3_Witness ==
    \E r \in AuthIds :
        /\ areq[r].pc = "done"
        /\ aresp[r].status = 200
        /\ Len(aresp[r].user) = 1
        /\ aresp[r].user[1].google_id = "sA"
        /\ aresp[r].user[1].last_login > aresp[r].user[1].created_at

\* request r's verification settles in this step on a token whose validity
\* window has passed
VerifiesExpired(r) ==
    /\ areq[r].pc = "verify"
    /\ areq'[r] # areq[r]
    /\ areq[r].token \in {"tA1", "tA2", "tB1", "tExpired"}
    /\ clock >= ExpiryOf(areq[r].token)

C5_RefreshFrame ==
    [][\A r \in AuthIds :
          (areq[r].pc = "update" /\ WriteSucceeds(r)) =>
            /\ Len(users') = Len(users)
            /\ \A i \in 1..Len(users) :
                 IF users[i].google_id = SubOf(r)
                 THEN /\ users'[i].id = users[i].id
                      /\ users'[i].google_id = users[i].google_id
                      /\ users'[i].email = users[i].email
                      /\ users'[i].given_name = users[i].given_name
                      /\ users'[i].family_name = users[i].family_name
                      /\ users'[i].locale = users[i].locale
                      /\ users'[i].created_at = users[i].created_at
                 ELSE users'[i] = users[i]]_vars

\* C5 witness: a refresh with claims that differ from the stored row in
\* every field has ended, with another subject's row in the table.
C5_Witness ==
    \E r \in AuthIds :
        /\ areq[r].pc = "done"
        /\ areq[r].token = "tA2"
        /\ aresp[r].status = 200
        /\ Len(aresp[r].user) = 1
        /\ aresp[r].user[1].email = "a@x"
        /\ aresp[r].user[1].full_name = "Ann Lee"
        /\ RowsOf(users, "sB") # {}

\* request r's pending store operation (SELECT, INSERT or UPDATE) rejects in
\* this step.  Each of the three is awaited once per call, so the step is the
\* operation's first attempt.
StoreFails(r) ==
    /\ areq[r].pc \in {"select", "insert", "update"}
    /\ areq'[r].err = "StoreError"

\* C15: a store operation that fails is tried again before the call gives up
\* (its first failure does not end the call); the failure the call ends with
\* is not a login and differs from the answer to every verification failure.
C15_StoreFailureRetriedAndDistinct ==
    [][\A r \in AuthIds :
          StoreFails(r) =>
            /\ areq'[r].pc # "done"
            /\ aresp'[r].status # 200
            /\ \A reason \in VerifyFailures :
                  aresp'[r] # VerifyFailResp(impl, reason)]_vars

\* request r's verification settles in this step with a rejection
VerifyFails(r) ==
    /\ areq[r].pc = "verify"
    /\ areq'[r] # areq[r]
    /\ VerifyIdToken(areq[r].token, clock) # "ok"

\* C16: a rejected verification ends the call at once, before any store
\* operation (the table is as it was), with a 4xx answer that is the one of
\* the verifier's failure kind and of no other kind.
C16_VerifyFailureIs4xxOfItsKind ==
    [][\A r \in AuthIds :
          VerifyFails(r) =>
            /\ areq'[r].pc = "done"
            /\ users' = users
            /\ nextId' = nextId
            /\ aresp'[r].status \in 400..499
            /\ \A reason \in VerifyFailures \ {areq'[r].err} :
                  aresp'[r] # VerifyFailResp(impl, reason)]_vars

----------------------------------------------------------------------------
(* Properties of POST /api/gemini *)

\* the request carries text as its prompt: as the Gemini-style part, or, with
\* no contents array to take precedence, as the prompt field
CarriesPrompt(body, text) ==
    \/ Get(body, "contents") = ContentsOf(text)
    \/ /\ ~IsNonEmptyArray(Get(body, "contents"))
       /\ Get(body, "prompt") = text

\* the handler has answered the current request
Answered == greq.pc = "done"

\* C6: a prompt of length 0 is answered 400 and fetch is not called.
C6_EmptyPromptRejected ==
    (greq.pc # "idle" /\ CarriesPrompt(greq.body, EmptyStr))
    => /\ Answered
       /\ gresp.status = 400
       /\ fetchCalls = 0
       /\ sent = NoPayload

\* C6 witness: a request with the empty prompt has been answered.
C6_Witness ==
    /\ Answered
    /\ CarriesPrompt(greq.body, EmptyStr)
    /\ gresp.status = 400

\* C7: a prompt longer than the maximum is answered 400 and fetch is not
\* called.
C7_OverLongPromptRejected ==
    (greq.pc # "idle" /\ CarriesPrompt(greq.body, Str("<100001 chars>", MaxPromptLen + 1, FALSE)))
    => /\ Answered
       /\ gresp.status = 400
       /\ fetchCalls = 0

\* the keys of the tier table
TierKeys == {"haiku", "sonnet", "haiku-legacy"}

\* the body's tier is absent or is not a key of the tier table
UnknownTier(body) ==
    ~(IsString(Get(body, "model")) /\ Get(body, "model").v \in TierKeys)

\* C8: with a tier that is absent or not a key of the tier table, the
\* provider is sent the default tier's model and token limit.
C8_UnknownTierFallsBack ==
    (impl = "part000" /\ fetchCalls > 0 /\ UnknownTier(greq.body))
    => /\ sent.model = Str("claude-3-5-haiku-20241022", 25, FALSE)
       /\ sent.max_tokens = Num(2048)

\* the provider answered the current request with a decodable body and a
\* non-2xx status, and the handler has answered
AnsweredProviderError ==
    /\ Answered
    /\ fetchCalls > 0
    /\ ~greq.rejected
    /\ greq.pbody # Undecodable
    /\ ~IsOk(greq.status)

\* C9: the failure is the one the provider's status determines: 429 rate
\* limited (and nothing else is), 401 the authentication error, 400 invalid
\* request, any other status the provider's own error.
C9_StatusDeterminesFailure ==
    AnsweredProviderError
    => /\ (greq.status = 429) <=> (gresp.status = 429)
       /\ greq.status = 401 =>
            gresp.error = "API authentication error. Please contact support."
       /\ greq.status = 400 => gresp.status = 400
       /\ greq.status \notin {429, 401, 400} =>
            \/ gresp.details = greq.pbody
            \/ gresp.error = ProviderErrorMessage(greq.pbody)

AnsweredUndecodable ==
    /\ Answered
    /\ fetchCalls > 0
    /\ ~greq.rejected
    /\ greq.pbody = Undecodable

\* C11: a provider body that cannot be decoded gets, whatever the status, a
\* failure of its own (the protocol error), which is not the one an internal
\* error gets; no text is extracted from it.
C11_UndecodableIsProtocolError ==
    AnsweredUndecodable
    => LET internal == CatchResp(impl, nodeEnv, "Cannot read properties of null") IN
       /\ <<gresp.status, gresp.error>> # <<internal.status, internal.error>>
       /\ gresp.text = JUndef
       /\ gresp.candText = JUndef

\* the provider answered the current request with a decodable body and a 2xx
\* status, and the handler has answered
AnsweredProviderOk ==
    /\ Answered
    /\ fetchCalls > 0
    /\ ~greq.rejected
    /\ greq.pbody # Undecodable
    /\ IsOk(greq.status)

\* the fields the extraction rules read from the envelope
RuleFields == {"completion", "content", "messages", "output_text", "text", "candidates"}

\* the envelope is a map with none of the fields an extraction rule reads
MatchesNoRule(data) ==
    /\ data.t = "object"
    /\ \A k \in RuleFields : Get(data, k) = JUndef

\* the text of a 200 response: the text field in server.js, the one
\* candidate's part in part_000 (which has no text field)
ResultText(resp) == IF impl = "server" THEN resp.text ELSE resp.candText

\* C12: a 2xx envelope that matches no extraction rule is answered 200 with
\* the empty string as text, and the text of every 200 answer is a string.
C12_NoMatchGivesEmptyText ==
    AnsweredProviderOk
    => /\ MatchesNoRule(greq.pbody) =>
            (gresp.status = 200 /\ ResultText(gresp) = EmptyStr)
       /\ gresp.status = 200 => IsString(ResultText(gresp))

\* the provider's body of the current request has been decoded
Decoded ==
    /\ greq.pc = "done"
    /\ greq.bodyUsed
    /\ greq.pbody # Undecodable

\* C13: extractTextFromAnthropicResponse raises on no decodable envelope: a
\* rule that reads a field of a missing or null value does not match.
C13_ExtractionIsTotal ==
    Decoded => ~extractTextFromAnthropicResponse(greq.pbody).thrown

\* C14: the rules are tried in order and the result is the string of the
\* first rule that yields a non-empty one: a completion string (rule 1) wins
\* over every other field, and an envelope whose text field (rule 7) is a
\* non-empty string never gives an empty string or no string, because an
\* earlier rule that yields the empty string does not stop the search.
C14_LowestRuleWins ==
    Decoded
    => LET x == extractTextFromAnthropicResponse(greq.pbody) IN
       /\ IsNonBlankString(Get(greq.pbody, "completion"))
            => x = Ret(Get(greq.pbody, "completion"))
       /\ (IsNonBlankString(Get(greq.pbody, "text")) /\ ~x.thrown)
            => (IsString(x.val) /\ x.val.len > 0)

\* C17: every generation request whose provider call is in flight is
\* eventually answered, also when the provider stays silent.
C17_GenerateEventuallyAnswers ==
    (greq.pc = "fetch") ~> Answered

\* C18: a generation request calls fetch at most once: the count of calls
\* never exceeds one, and it does not change between the request's arrival
\* and its answer, whatever fetch and json() settle with.
C18_FetchAtMostOnce ==
    [][/\ fetchCalls' <= 1
       /\ greq.pc \in {"fetch", "json", "text"} => fetchCalls' = fetchCalls]_vars

\* C18 witness: a request the provider answered with 429 has been answered
\* after one call of fetch.
C18_Witness ==
    /\ Answered
    /\ greq.status = 429
    /\ fetchCalls = 1
    /\ gresp.status # 0

\* the provider answered the current request with 401 and the handler has
\* answered
AnsweredProvider401 ==
    /\ Answered
    /\ fetchCalls > 0
    /\ ~greq.rejected
    /\ greq.status = 401

\* C19: the answer to a provider 401 does not depend on the 401's body: it
\* is the answer the same server gives when the 401 carries the provider's
\* usual error object.
C19_AuthErrorIndependentOfPayload ==
    AnsweredProvider401
    => gresp = Respond(impl, nodeEnv, 401,
                       Obj([error |-> Obj([message |-> Str("boom", 4, FALSE)])]))

\* C20: every generation request ends with exactly one outcome: a request is
\* answered exactly when its handler has ended, the answer is a result (200)
\* or a failure with its message, and no request that arrived stays without
\* an answer.
C20_ExactlyOneOutcome ==
    /\ [](Answered <=> gresp.status # 0)
    /\ [](Answered => (gresp.status = 200 \/ gresp.error # ""))
    /\ (greq.pc # "idle") ~> Answered

\* C21: every 200 response of server.js carries the output twice, as text and
\* as the one candidate's part; the two are equal, and they are the value
\* extracted from the provider's envelope (the empty string when nothing was
\* extracted).
C21_OutputCarriedTwice ==
    (impl = "server" /\ Answered /\ gresp.status = 200)
    => LET x == extractTextFromAnthropicResponse(greq.pbody) IN
       /\ ~x.thrown
       /\ gresp.text # JUndef
       /\ gresp.candText = gresp.text
       /\ gresp.text = IF Truthy(x.val) THEN x.val ELSE EmptyStr

\* C21 witness: server.js has answered 200 with a text extracted from the
\* envelope's content.
C21_Witness ==
    /\ impl = "server"
    /\ Answered
    /\ gresp.status = 200
    /\ gresp.text = Str("a", 1, FALSE)
    /\ gresp.candText = Str("a", 1, FALSE)

\* the envelope is a map without a completion field (rules 1-3 yield
\* nothing) whose content is a non-empty sequence
ContentRuleApplies(data) ==
    /\ data.t = "object"
    /\ Get(data, "completion") = JUndef
    /\ IsNonEmptyArray(Get(data, "content"))

\* C22: with such an envelope the request succeeds with the first element's
\* text when that is a non-empty string; otherwise, when the first element
\* has a non-empty content sequence of its own, it succeeds with the text of
\* that sequence's first element.  No later element is looked at.
C22_TopLevelContentRule ==
    (AnsweredProviderOk /\ ContentRuleApplies(greq.pbody))
    => LET first == At(Get(greq.pbody, "content"), 0)
           inner == At(Get(first, "content"), 0)
       IN IF IsString(Get(first, "text")) /\ Get(first, "text").len > 0
          THEN /\ gresp.status = 200
               /\ ResultText(gresp) = Get(first, "text")
          ELSE IsNonEmptyArray(Get(first, "content"))
               => /\ gresp.status = 200
                  /\ IsString(Get(inner, "text")) => ResultText(gresp) = Get(inner, "text")

\* the parts of contents[0], the empty sequence when there are none
PartsOf(body) ==
    LET first == At(Get(body, "contents"), 0) IN
    IF IsNullish(first) \/ Get(first, "parts").t # "array" THEN <<>>
    ELSE Get(first, "parts").a

\* part i carries a non-blank text
TextBearing(parts, i) ==
    /\ ~IsNullish(parts[i])
    /\ IsNonBlankString(Get(parts[i], "text"))

\* part i is the first text-bearing part
FirstTextBearing(parts, i) ==
    /\ i \in 1..Len(parts)
    /\ TextBearing(parts, i)
    /\ \A j \in 1..(i - 1) : ~TextBearing(parts, j)

\* part i is the first text-bearing part and no part before it is null
FirstTextBearingReached(parts, i) ==
    /\ FirstTextBearing(parts, i)
    /\ \A j \in 1..(i - 1) : ~IsNullish(parts[j])

\* the request is rejected as empty without a call of the provider
RejectedAsEmpty ==
    /\ Answered
    /\ gresp.status = 400
    /\ gresp.error = "Prompt is empty."
    /\ fetchCalls = 0

\* a server.js request is past validation
ServerRequest == impl = "server" /\ greq.pc # "idle"

\* C23 as stated: with a non-empty contents array the prompt sent is the text
\* of the first text-bearing part of contents[0], whatever the prompt field
\* holds; without such a part the request is rejected as empty; the prompt
\* field is sent only when contents is not a non-empty array.
C23_ContentsTakesPrecedence ==
    ServerRequest
    => LET parts == PartsOf(greq.body) IN
       IF IsNonEmptyArray(Get(greq.body, "contents"))
       THEN IF \E i \in 1..Len(parts) : FirstTextBearing(parts, i)
            THEN \E i \in 1..Len(parts) :
                    /\ FirstTextBearing(parts, i)
                    /\ fetchCalls = 1
                    /\ sent.content = Get(parts[i], "text")
            ELSE RejectedAsEmpty
       ELSE fetchCalls > 0 => sent.content = Get(greq.body, "prompt")

\* C23 amended: as stated, except that the scan of the parts stops at a null
\* part: the prompt sent is the text of the first text-bearing part when no
\* part before it is null, and otherwise the request is rejected as empty.
C23_ContentsTakesPrecedenceUpToNull ==
    ServerRequest
    => LET parts == PartsOf(greq.body) IN
       IF IsNonEmptyArray(Get(greq.body, "contents"))
       THEN IF \E i \in 1..Len(parts) : FirstTextBearingReached(parts, i)
            THEN \E i \in 1..Len(parts) :
                    /\ FirstTextBearingReached(parts, i)
                    /\ fetchCalls = 1
                    /\ sent.content = Get(parts[i], "text")
            ELSE RejectedAsEmpty
       ELSE fetchCalls > 0 => sent.content = Get(greq.body, "prompt")

\* C23 witness: a request whose contents holds only a blank text and whose
\* prompt field is a non-empty string has been rejected as empty.
C23_Witness ==
    /\ impl = "server"
    /\ Get(greq.body, "contents") = ContentsOf(Str("   ", 3, TRUE))
    /\ Get(greq.body, "prompt") = Str("yo", 2, FALSE)
    /\ RejectedAsEmpty

====
